---- MODULE Spec2Model ----
(***************************************************************************)
(* Phoenix AI chat application (src/a.py): the conversation set kept in   *)
(* the Streamlit session state, the current-conversation pointer, and the *)
(* shelve file the set is persisted to.  One script run is the statement  *)
(* `phoenix = PhoenixAI()` (which reloads the set from the shelve file)    *)
(* followed by `phoenix.run()` (which handles at most one widget event).   *)
(***************************************************************************)
EXTENDS Integers, Sequences, FiniteSets, TLC

VARIABLES
    conversations,  \* st.session_state.conversations: ordered name -> messages
    current_chat,   \* st.session_state.current_chat
    groq_model,     \* st.session_state.groq_model
    client,         \* self.client of the PhoenixAI object of this script run
    db,             \* the shelve file: <<>> (no "conversations" key) or <<set>>
    pc,             \* "fresh" before the first script run, "idle" between script
                    \* runs, "constructed" between PhoenixAI() and run()
    io_failed,      \* whether a shelve access has failed so far
    op              \* the last operation: its name, arguments and outcome

vars == <<conversations, current_chat, groq_model, client, db, pc, io_failed, op>>

----------------------------------------------------------------------------
(* Bounds of the model *)

MaxChats == 3       \* create is offered while fewer conversations exist
MaxMsgs == 4        \* a prompt is offered while the set holds no more messages

(* Inputs *)
OldNames == {"A", "Chat 1"}
NewNames == {"", "A", "Chat 2"}
DeleteNames == {"A", "Chat 1", "Chat 2"}
Prompts == {"hi"}
Completions == {"hello"}
Errors == {"timeout"}
ModelLabels == {"Llama 3 70B", "Llama 3 8B"}

----------------------------------------------------------------------------
(* Constants of the program *)

None == "<None>"

DEFAULT_MODEL == "llama3-70b-8192"

MODELS == [l \in {"Llama 3 70B", "Llama 3 8B", "Mixtral 8x7B", "Claude 3 Opus"} |->
             CASE l = "Llama 3 70B" -> "llama3-70b-8192"
               [] l = "Llama 3 8B" -> "llama3-8b-8192"
               [] l = "Mixtral 8x7B" -> "mixtral-8x7b-32768"
               [] l = "Claude 3 Opus" -> "claude-3-opus-20240229"]

NoClientReply == "API client not initialized. Please check your API key."

----------------------------------------------------------------------------
(* Python dict operations on the ordered conversation set *)

Keys(c) == {c[i].name : i \in 1..Len(c)}

HasKey(c, k) == \E i \in 1..Len(c) : c[i].name = k

\* c[k] for a key that is present
Get(c, k) == c[CHOOSE i \in 1..Len(c) : c[i].name = k].messages

\* c[k] = v: an existing key keeps its position, a new key goes last
Put(c, k, v) ==
    IF HasKey(c, k)
    THEN [i \in 1..Len(c) |-> IF c[i].name = k THEN [name |-> k, messages |-> v] ELSE c[i]]
    ELSE Append(c, [name |-> k, messages |-> v])

\* del c[k]
Del(c, k) == SelectSeq(c, LAMBDA e : e.name # k)

\* next(iter(c)) on a non-empty dict
FirstKey(c) == c[1].name

\* Python truthiness of current_chat / new_name
Truthy(s) == s # None /\ s # ""

ChatName(n) == "Chat " \o ToString(n)

Message(role, content) == [role |-> role, content |-> content]

RECURSIVE TotalMsgs(_)
TotalMsgs(c) == IF c = <<>> THEN 0 ELSE Len(Head(c).messages) + TotalMsgs(Tail(c))

----------------------------------------------------------------------------
(* The shelve file *)

\* db.get("conversations", {})
shelve_get(d) == IF d = <<>> THEN <<>> ELSE d[1]

\* save_chat_history: overwrite on success, keep the file on failure
save_chat_history(c, d, ok) == IF ok THEN <<c>> ELSE d

\* load_chat_history that also clears the pointer when the load fails
load_chat_history_clearing(c, cur, d, ok) ==
    IF ok
    THEN LET loaded == shelve_get(d)
         IN  [conversations |-> loaded,
              current_chat |-> IF ~Truthy(cur) /\ loaded # <<>>
                               THEN FirstKey(loaded) ELSE cur]
    ELSE [conversations |-> <<>>, current_chat |-> None]

\* load_chat_history: the new (conversations, current_chat)
load_chat_history(c, cur, d, ok) ==
    IF ok
    THEN LET loaded == shelve_get(d)
         IN  [conversations |-> loaded,
              current_chat |-> IF ~Truthy(cur) /\ loaded # <<>>
                               THEN FirstKey(loaded) ELSE cur]
    ELSE [conversations |-> <<>>, current_chat |-> cur]

----------------------------------------------------------------------------
(* Methods of PhoenixAI on (conversations, current_chat, db) *)

\* create_new_chat that does not persist
create_new_chat_unsaved(c, cur, d, ok) ==
    LET new_chat_name == ChatName(Len(c) + 1)
        c2 == Put(c, new_chat_name, <<>>)
    IN  [conversations |-> c2, current_chat |-> new_chat_name,
         db |-> d, ret |-> new_chat_name]

create_new_chat(c, cur, d, ok) ==
    LET new_chat_name == ChatName(Len(c) + 1)
        c2 == Put(c, new_chat_name, <<>>)
    IN  [conversations |-> c2, current_chat |-> new_chat_name,
         db |-> save_chat_history(c2, d, ok), ret |-> new_chat_name]

\* rename_chat without the collision test
rename_chat_overwriting(c, cur, d, old_name, new_name, ok) ==
    IF Truthy(new_name) /\ new_name # old_name
    THEN IF HasKey(c, old_name)
         THEN LET c2 == Put(Del(c, old_name), new_name, Get(c, old_name))
              IN  [conversations |-> c2, current_chat |-> new_name,
                   db |-> save_chat_history(c2, d, ok), ret |-> "True"]
         ELSE [conversations |-> c, current_chat |-> cur, db |-> d, ret |-> "KeyError"]
    ELSE [conversations |-> c, current_chat |-> cur, db |-> d, ret |-> "False"]

rename_chat(c, cur, d, old_name, new_name, ok) ==
    IF Truthy(new_name) /\ new_name # old_name /\ ~HasKey(c, new_name)
    THEN IF HasKey(c, old_name)
         THEN LET c2 == Put(Del(c, old_name), new_name, Get(c, old_name))
              IN  [conversations |-> c2, current_chat |-> new_name,
                   db |-> save_chat_history(c2, d, ok), ret |-> "True"]
         ELSE [conversations |-> c, current_chat |-> cur, db |-> d, ret |-> "KeyError"]
    ELSE [conversations |-> c, current_chat |-> cur, db |-> d, ret |-> "False"]

\* delete_chat that repoints to the last remaining key
delete_chat_last(c, cur, d, chat_name, ok) ==
    IF HasKey(c, chat_name)
    THEN LET c2 == Del(c, chat_name)
         IN  [conversations |-> c2,
              current_chat |-> IF cur = chat_name
                               THEN (IF c2 # <<>> THEN c2[Len(c2)].name ELSE None)
                               ELSE cur,
              db |-> save_chat_history(c2, d, ok), ret |-> "True"]
    ELSE [conversations |-> c, current_chat |-> cur, db |-> d, ret |-> "False"]

delete_chat(c, cur, d, chat_name, ok) ==
    IF HasKey(c, chat_name)
    THEN LET c2 == Del(c, chat_name)
         IN  [conversations |-> c2,
              current_chat |-> IF cur = chat_name
                               THEN (IF c2 # <<>> THEN FirstKey(c2) ELSE None)
                               ELSE cur,
              db |-> save_chat_history(c2, d, ok), ret |-> "True"]
    ELSE [conversations |-> c, current_chat |-> cur, db |-> d, ret |-> "False"]

\* the client of this script run: Groq(api_key), or None when the key is
\* missing or the constructor raises
setup_api_client(cl) == cl

\* outcome "ok": the API answers `content`; "raised": the call raises `err`
generate_response(cl, outcome, content, err) ==
    IF cl = None THEN NoClientReply
    ELSE IF outcome = "ok" THEN content
    ELSE "Sorry, I encountered an error: " \o err

\* how the inference call of one turn ended
InferTag(cl, outcome) == IF cl = None THEN "absent" ELSE outcome

----------------------------------------------------------------------------
(* Initial state: a fresh session; the shelve file may hold an earlier set *)

InitialStores ==
    { <<>>,
      << << [name |-> "Chat 1",
             messages |-> <<Message("user", "hi"), Message("assistant", "hello")>>] >> >> }

NoOp == [name |-> "init", a1 |-> "", a2 |-> "", ret |-> "", infer |-> "none", saved |-> "none"]

Init ==
    /\ conversations = <<>>
    /\ current_chat = None
    /\ groq_model = DEFAULT_MODEL
    /\ client = None
    /\ db \in InitialStores
    /\ pc = "fresh"
    /\ io_failed = FALSE
    /\ op = NoOp

\* a shelve access succeeds or raises
IoOutcomes == {TRUE, FALSE}

Saved(ok) == IF ok THEN "ok" ELSE "fail"

----------------------------------------------------------------------------
(* PhoenixAI(): setup_state, setup_api_client, load_chat_history *)

Startup ==
    /\ pc \in {"fresh", "idle"}
    /\ \E cl \in {"Groq", None}, ok \in IoOutcomes :
         LET l == load_chat_history(conversations, current_chat, db, ok)
         IN  /\ client' = setup_api_client(cl)
             /\ conversations' = l.conversations
             /\ current_chat' = l.current_chat
             /\ io_failed' = (io_failed \/ ~ok)
             /\ op' = [NoOp EXCEPT !.name = "load", !.saved = Saved(ok)]
    /\ pc' = "constructed"
    /\ UNCHANGED <<groq_model, db>>

----------------------------------------------------------------------------
(* phoenix.run(): render_sidebar, then render_main_interface; one widget   *)
(* event per script run                                                     *)

\* the current pointer names no conversation: line 328 raises KeyError
Dangling(c, cur) == Truthy(cur) /\ ~HasKey(c, cur)

Finish(r, name, a1, a2, ok) ==
    /\ conversations' = r.conversations
    /\ current_chat' = r.current_chat
    /\ db' = r.db
    /\ op' = [name |-> name, a1 |-> a1, a2 |-> a2, ret |-> r.ret, infer |-> "none",
              saved |-> IF r.ret \in {"False", "KeyError"} THEN "none" ELSE Saved(ok)]
    /\ io_failed' = (io_failed \/ (r.ret \notin {"False", "KeyError"} /\ ~ok))
    /\ pc' = "idle"
    /\ UNCHANGED <<groq_model, client>>

\* the "+ New Conversation" button
ClickNewConversation ==
    /\ pc = "constructed"
    /\ Len(conversations) < MaxChats
    /\ \E ok \in IoOutcomes :
         Finish(create_new_chat(conversations, current_chat, db, ok), "create", "", "", ok)

\* the button carrying a conversation's name
ClickSelect(chat_name) ==
    /\ pc = "constructed"
    /\ HasKey(conversations, chat_name)
    /\ current_chat' = chat_name
    /\ op' = [NoOp EXCEPT !.name = "select", !.a1 = chat_name]
    /\ pc' = "idle"
    /\ UNCHANGED <<conversations, groq_model, client, db, io_failed>>

\* the "x" button of a conversation: only the current one is deleted
ClickDelete(chat_name) ==
    /\ pc = "constructed"
    /\ HasKey(conversations, chat_name)
    /\ IF current_chat = chat_name
       THEN \E ok \in IoOutcomes :
              Finish(delete_chat(conversations, current_chat, db, chat_name, ok),
                     "delete", chat_name, "", ok)
       ELSE /\ op' = [NoOp EXCEPT !.name = "rerun"]
            /\ pc' = "idle"
            /\ UNCHANGED <<conversations, current_chat, groq_model, client, db, io_failed>>

\* delete_chat called with any name
CallDelete(chat_name) ==
    /\ pc = "constructed"
    /\ \E ok \in IoOutcomes :
         Finish(delete_chat(conversations, current_chat, db, chat_name, ok),
                "delete", chat_name, "", ok)

\* rename_chat called with any pair of names
CallRename(old_name, new_name) ==
    /\ pc = "constructed"
    /\ \E ok \in IoOutcomes :
         Finish(rename_chat(conversations, current_chat, db, old_name, new_name, ok),
                "rename", old_name, new_name, ok)

\* a turn that stores the reply before the prompt
Turn_reply_first(c, cur, d, prompt, outcome, content, err, ok) ==
    LET full_response == generate_response(client, outcome, content, err)
        messages == Get(c, cur) \o <<Message("assistant", full_response),
                                     Message("user", prompt)>>
        c2 == Put(c, cur, messages)
    IN  [conversations |-> c2, current_chat |-> cur,
         db |-> save_chat_history(c2, d, ok), ret |-> full_response]

\* a turn that stores no assistant message when the inference call failed
Turn_drop_failed(c, cur, d, prompt, outcome, content, err, ok) ==
    LET full_response == generate_response(client, outcome, content, err)
        messages == Get(c, cur) \o
                      (IF InferTag(client, outcome) = "ok"
                       THEN <<Message("user", prompt), Message("assistant", full_response)>>
                       ELSE <<Message("user", prompt)>>)
        c2 == Put(c, cur, messages)
    IN  [conversations |-> c2, current_chat |-> cur,
         db |-> save_chat_history(c2, d, ok), ret |-> full_response]

\* one turn of the chat input, after the conversation to append to is settled
Turn(c, cur, d, prompt, outcome, content, err, ok) ==
    LET full_response == generate_response(client, outcome, content, err)
        messages == Get(c, cur) \o <<Message("user", prompt),
                                     Message("assistant", full_response)>>
        c2 == Put(c, cur, messages)
    IN  [conversations |-> c2, current_chat |-> cur,
         db |-> save_chat_history(c2, d, ok), ret |-> full_response]

\* st.chat_input delivers a prompt
SubmitPrompt(prompt) ==
    /\ pc = "constructed"
    /\ IF Dangling(conversations, current_chat)
       THEN /\ op' = [NoOp EXCEPT !.name = "send", !.a1 = prompt, !.ret = "KeyError"]
            /\ UNCHANGED <<conversations, current_chat, db, io_failed>>
       ELSE \E ok1 \in IF Truthy(current_chat) THEN {TRUE} ELSE IoOutcomes :
            \E ok2 \in IoOutcomes :
            \E outcome \in {"ok", "raised"}, content \in Completions, err \in Errors :
              LET s == IF Truthy(current_chat)
                       THEN [conversations |-> conversations,
                             current_chat |-> current_chat, db |-> db]
                       ELSE create_new_chat(conversations, current_chat, db, ok1)
                  r == Turn(s.conversations, s.current_chat, s.db, prompt,
                            outcome, content, err, ok2)
              IN  /\ TotalMsgs(s.conversations) + 2 <= MaxMsgs
                  /\ conversations' = r.conversations
                  /\ current_chat' = r.current_chat
                  /\ db' = r.db
                  /\ io_failed' = (io_failed \/ ~ok1 \/ ~ok2)
                  /\ op' = [name |-> "send", a1 |-> prompt, a2 |-> "", ret |-> r.ret,
                            infer |-> InferTag(client, outcome), saved |-> Saved(ok2)]
    /\ pc' = "idle"
    /\ UNCHANGED <<groq_model, client>>

\* update_model: the on_change callback of the model selector
ChangeModel(selected_model_name) ==
    /\ pc = "idle"
    /\ MODELS[selected_model_name] # groq_model
    /\ groq_model' = MODELS[selected_model_name]
    /\ op' = [NoOp EXCEPT !.name = "model", !.a1 = selected_model_name]
    /\ UNCHANGED <<conversations, current_chat, client, db, pc, io_failed>>

\* a script run with no widget event
Rerun ==
    /\ pc = "constructed"
    /\ op' = [NoOp EXCEPT !.name = "rerun"]
    /\ pc' = "idle"
    /\ UNCHANGED <<conversations, current_chat, groq_model, client, db, io_failed>>

Next ==
    \/ Startup
    \/ ClickNewConversation
    \/ \E n \in Keys(conversations) : ClickSelect(n)
    \/ \E n \in Keys(conversations) : ClickDelete(n)
    \/ \E n \in DeleteNames : CallDelete(n)
    \/ \E o \in OldNames, n \in NewNames : CallRename(o, n)
    \/ \E p \in Prompts : SubmitPrompt(p)
    \/ \E l \in ModelLabels : ChangeModel(l)
    \/ Rerun

Spec == Init /\ [][Next]_vars

----------------------------------------------------------------------------
(* Properties *)

\* the messages of conversation k in c, for a key that may be absent
Same(c, k, msgs) == HasKey(c, k) /\ Get(c, k) = msgs

\* every conversation of c other than those named in `except` is in c2 unchanged
OthersKept(c, c2, except) ==
    \A i \in 1..Len(c) : c[i].name \notin except => Same(c2, c[i].name, c[i].messages)

\* C1: in every reachable state the current-conversation pointer is null or a
\* key of the in-memory conversation set.
C1_PointerIsKey == current_chat = None \/ HasKey(conversations, current_chat)

\* C2: every create() names the new conversation "Chat n+1" for the count n
\* before the call, inserts it as a new empty conversation, raises the count
\* by exactly one and leaves every other conversation's messages unchanged.
C2_CreateAddsFreshChat ==
    [][op'.name = "create" =>
         LET n == Len(conversations)
         IN  /\ op'.ret = ChatName(n + 1)
             /\ ~HasKey(conversations, op'.ret)
             /\ Len(conversations') = n + 1
             /\ Same(conversations', op'.ret, <<>>)
             /\ OthersKept(conversations, conversations', {})]_vars

\* C3: a successful rename(old, new) stores old's messages under new, removes
\* old, leaves the other conversations unchanged, and moves the current pointer
\* to new only if it referenced old.
C3_RenameMovesPointerOnlyFromOld ==
    [][op'.name = "rename" /\ op'.ret = "True" =>
         /\ Same(conversations', op'.a2, Get(conversations, op'.a1))
         /\ ~HasKey(conversations', op'.a1)
         /\ OthersKept(conversations, conversations', {op'.a1})
         /\ Keys(conversations') = (Keys(conversations) \ {op'.a1}) \cup {op'.a2}
         /\ current_chat' = IF current_chat = op'.a1 THEN op'.a2 ELSE current_chat]_vars

\* C4: rename(old, new) with new empty, new = old or new already a key returns
\* false and changes neither the set, nor the pointer, nor the persisted state.
C4_RenameRejects ==
    [][op'.name = "rename"
         /\ (op'.a2 = "" \/ op'.a2 = op'.a1 \/ HasKey(conversations, op'.a2)) =>
         /\ op'.ret = "False"
         /\ UNCHANGED <<conversations, current_chat, db>>]_vars

C4_Witness ==
    /\ op.name = "rename" /\ op.ret = "False" /\ op.a2 # op.a1
    /\ HasKey(conversations, op.a1) /\ HasKey(conversations, op.a2)
    /\ Get(conversations, op.a1) # Get(conversations, op.a2)

\* the first key of c, in iteration order, other than k; None when there is none
FirstOther(c, k) ==
    LET rest == {i \in 1..Len(c) : c[i].name # k}
    IN  IF rest = {} THEN None
        ELSE c[CHOOSE i \in rest : \A j \in rest : i <= j].name

\* C5: delete(name) of a present name removes exactly that conversation and
\* returns true, repointing a pointer that referenced it to the first remaining
\* key (null when none remains) and leaving any other pointer alone; delete of
\* an absent name returns false and changes nothing.
C5_Delete ==
    [][op'.name = "delete" =>
         IF HasKey(conversations, op'.a1)
         THEN /\ op'.ret = "True"
              /\ Keys(conversations') = Keys(conversations) \ {op'.a1}
              /\ Len(conversations') = Len(conversations) - 1
              /\ OthersKept(conversations, conversations', {op'.a1})
              /\ current_chat' = IF current_chat = op'.a1
                                  THEN FirstOther(conversations, op'.a1)
                                  ELSE current_chat
         ELSE /\ op'.ret = "False"
              /\ UNCHANGED <<conversations, current_chat, db>>]_vars

\* the current conversation was deleted while two others remained
C5_Witness ==
    /\ op.name = "delete" /\ op.ret = "True"
    /\ Len(conversations) = 2
    /\ current_chat = conversations[1].name
    /\ ~HasKey(conversations, op.a1)

\* C6: a prompt whose inference call succeeds extends the current conversation
\* by the user message and then the assistant reply, keeping the earlier
\* messages as a prefix and every other conversation unchanged; with no current
\* conversation a new one is created and receives the two messages.
C6_TurnAppendsTwo ==
    [][op'.name = "send" /\ op'.infer = "ok" =>
         LET had == Truthy(current_chat)
             before == IF had THEN Get(conversations, current_chat) ELSE <<>>
         IN  /\ current_chat' = IF had THEN current_chat ELSE current_chat'
             /\ Truthy(current_chat')
             /\ had \/ ~HasKey(conversations, current_chat')
             /\ Same(conversations', current_chat',
                     before \o <<Message("user", op'.a1), Message("assistant", op'.ret)>>)
             /\ Keys(conversations') = Keys(conversations) \cup {current_chat'}
             /\ OthersKept(conversations, conversations', {current_chat'})]_vars

\* a successful turn on a conversation that already held a turn
C6_Witness ==
    /\ op.name = "send" /\ op.infer = "ok"
    /\ HasKey(conversations, current_chat)
    /\ Len(Get(conversations, current_chat)) = 4
    /\ Len(conversations) >= 2

IsErrorReply(infer, ret) ==
    \/ infer = "absent" /\ ret = NoClientReply
    \/ infer = "raised" /\ \E e \in Errors : ret = "Sorry, I encountered an error: " \o e

\* C7: a prompt whose inference call fails returns a synthesized error string,
\* keeps the user message appended, and appends no assistant message.
C7_FailedTurnAppendsNoAssistant ==
    [][op'.name = "send" /\ op'.infer \in {"absent", "raised"} =>
         LET msgs == Get(conversations', current_chat')
         IN  /\ IsErrorReply(op'.infer, op'.ret)
             /\ msgs[Len(msgs)] = Message("user", op'.a1)]_vars

\* C7 as amended: a prompt whose inference call fails returns a synthesized
\* error string, keeps the user message appended, and appends the error string
\* as the assistant message of the turn, which is persisted when the save
\* succeeds.
C7_FailedTurnAppendsErrorReply ==
    [][op'.name = "send" /\ op'.infer \in {"absent", "raised"} =>
         LET msgs == Get(conversations', current_chat')
             before == IF Truthy(current_chat) THEN Get(conversations, current_chat)
                       ELSE <<>>
         IN  /\ IsErrorReply(op'.infer, op'.ret)
             /\ msgs = before \o <<Message("user", op'.a1), Message("assistant", op'.ret)>>
             /\ op'.saved = "ok" => shelve_get(db') = conversations']_vars

C7_Witness ==
    /\ op.name = "send" /\ op.infer = "raised" /\ op.saved = "ok"
    /\ Len(Get(conversations, current_chat)) = 4

\* C8: a reload at the start of a script run, failed or after a failed save,
\* keeps every conversation and message that was in memory.
C8_ReloadKeepsMemory ==
    [][op'.name = "load" => OthersKept(conversations, conversations', {})]_vars

\* C9: a non-null pointer becomes null only by a delete of the selected
\* conversation that leaves the set empty.
C9_NullOnlyByLastDelete ==
    [][current_chat # None /\ current_chat' = None =>
         /\ op'.name = "delete" /\ op'.ret = "True"
         /\ op'.a1 = current_chat
         /\ conversations' = <<>>]_vars

\* the selected conversation was the last one and has been deleted
C9_Witness ==
    /\ op.name = "delete" /\ op.ret = "True"
    /\ current_chat = None /\ conversations = <<>>

\* C10: while no shelve access has failed, after every completed interaction
\* the persisted set read back by the next reload equals the in-memory set.
C10_PersistedEqualsMemory ==
    (~io_failed /\ pc = "idle") => shelve_get(db) = conversations

C10_Witness ==
    /\ ~io_failed /\ pc = "idle" /\ op.name = "delete" /\ op.ret = "True"
    /\ Len(conversations) = 2 /\ TotalMsgs(conversations) = 4

====
